---- MODULE Spec2Model ----
(***************************************************************************)
(* Model of neurons/Romain_2004_LIF_phase_locking.py: a population of      *)
(* leaky integrate-and-fire units under constant-plus-sinusoidal drive,    *)
(* stepped by a fixed-step runner that records the spike vector, followed  *)
(* by the raster extraction and the spike-phase computation.               *)
(*                                                                         *)
(* Floating-point values are fixed-point integers: the float x is the      *)
(* integer x * Scale, every division rounds down.  Time is counted in      *)
(* ticks of 1 / TicksPerMs milliseconds, so that the step size 0.1 ms is   *)
(* one tick; a time becomes a fixed-point number of milliseconds when it   *)
(* is recorded.  All intermediate products stay below 2^31.                *)
(***************************************************************************)
EXTENDS Integers, Sequences, FiniteSets, TLC

\* ---------------------------------------------------------------- numbers
Scale == 1000 * 1000

\* ticks per millisecond, and the step size of the runner in ticks (0.1 ms)
TicksPerMs == 10
dt == 1

\* Bounds of the model: the population size (2000 in the script) and the
\* duration of the run in ms (5 * 1000 in the script).
NumUnits == 3
Duration == 120

\* The end-to-end scenario: one unit, drive 3.0, 1000 steps of 0.1 ms.
ScenarioDrive == 3
ScenarioSteps == 1000

Units(n) == 1 .. n

\* bool -> float (bm.asarray(..., dtype=bm.float_))
AsFloat(b) == IF b THEN Scale ELSE 0

\* bm.zeros(size)
zeros(n) == [u \in Units(n) |-> 0]

\* bm.linspace(lo, hi, n): n evenly spaced samples, both ends included
linspace(lo, hi, n) ==
  [u \in Units(n) |->
     IF n = 1 THEN lo * Scale
     ELSE lo * Scale + ((u - 1) * ((hi - lo) * Scale)) \div (n - 1)]

\* bm.sin(2 * bm.pi * ticks / (period ms)), fixed-point.  The angle is
\* reduced to one half wave of h ticks and the half wave is Bhaskara's
\* rational approximation 16 m / (5 h^2 - 4 m), m = k (h - k), which is
\* exact at 0, 1/4 and 1/2 of a turn and within 0.0017 of the sine elsewhere.
\* The quotient is formed three decimal digits at a time.
SinHalf(k, h) ==
  LET m  == k * (h - k)
      D  == 5 * h * h - 4 * m
      n1 == 16 * m * 1000
      q1 == n1 \div D
      r1 == n1 % D
      q2 == (r1 * 1000) \div D
  IN  q1 * 1000 + q2

SinTurn(ticks, period) ==
  LET d == period * TicksPerMs
      h == d \div 2
      k == ticks % d
  IN  IF k <= h THEN SinHalf(k, h) ELSE 0 - SinHalf(k - h, h)

\* ------------------------------------------------------------------ state
VARIABLES
  num,          \* population size
  tau,          \* time constant and period of the drive, ms
  Vth,          \* threshold, fixed-point mV
  Vr,           \* reset value, fixed-point mV
  inputs,       \* per-unit constant drive, fixed-point
  V,            \* LIF.V, the membrane potentials
  spike,        \* LIF.spike, the spike indicators
  Vlocal,       \* the local V of LIF.update: the integrated candidate
  t,            \* the time argument of the latest LIF.update call, ticks
  i,            \* the runner's step index
  duration,     \* the duration handed to runner.run, ticks
  mon_spike,    \* runner.mon.spike, one spike vector per recorded step
  mon_ts,       \* runner.mon.ts, the recorded times, fixed-point ms
  indices,      \* raster_plot: unit index of each spike event
  times,        \* raster_plot: time of each spike event, fixed-point ms
  spike_phases, \* (times % tau) / tau
  params,       \* inputs[indices]
  pc            \* position in the script

globals == <<num, tau, Vth, Vr, inputs>>
group   == <<V, spike, Vlocal>>
monitor_vars == <<mon_spike, mon_ts>>
analysis == <<indices, times, spike_phases, params>>
vars == <<num, tau, Vth, Vr, inputs, V, spike, Vlocal, t, i, duration,
          mon_spike, mon_ts, indices, times, spike_phases, params, pc>>

\* ------------------------------------------------------------- LIF (46-60)
\* variant: the oscillation enters with twice its amplitude
derivativeAmp4(Vu, inp, tk, period) ==
  ((0 - Vu) + inp + 4 * SinTurn(tk, period)) \div period

\* variant: the constant drive is left out
derivativeNoDrive(Vu, inp, tk, period) ==
  ((0 - Vu) + 2 * SinTurn(tk, period)) \div period

\* LIF.derivative, for one unit
derivative(Vu, inp, tk, period) ==
  ((0 - Vu) + inp + 2 * SinTurn(tk, period)) \div period

\* self.integral = bp.odeint(self.derivative): one explicit Euler step of
\* size dt from time tk, elementwise
integral(Vv, tk) ==
  [u \in DOMAIN Vv |->
     Vv[u] + (dt * derivative(Vv[u], inputs[u], tk, tau)) \div TicksPerMs]

\* variant: the threshold test is reversed
SpikeOfBelow(Vl, th) == [u \in DOMAIN Vl |-> AsFloat(Vl[u] <= th)]

\* bm.asarray(V >= Vth, dtype=bm.float_)
SpikeOf(Vl, th) == [u \in DOMAIN Vl |-> AsFloat(Vl[u] >= th)]

\* variant: the mask selects every unit
ResetOfAll(sp, vr, Vl) == [u \in DOMAIN Vl |-> IF sp[u] >= 0 THEN vr ELSE Vl[u]]

\* variant: the mask selects no unit
ResetOfNone(sp, vr, Vl) == [u \in DOMAIN Vl |-> IF sp[u] > Scale THEN vr ELSE Vl[u]]

\* bm.where(self.spike > 0., Vr, V)
ResetOf(sp, vr, Vl) == [u \in DOMAIN Vl |-> IF sp[u] > 0 THEN vr ELSE Vl[u]]

\* ---------------------------------------------------------- runner (64-68)
\* variant: the end of the time grid is included
RunLengthInclusive(dur) == dur \div dt + 1

\* number of steps of runner.run(duration): len(arange(0, duration, dt))
RunLength(dur) == dur \div dt

\* a time in ticks as a fixed-point number of ms
Ms(tk) == tk * (Scale \div TicksPerMs)

\* variant: the drive array is overwritten in place by the update
updateInPlace ==
  /\ pc = "update"
  /\ i < RunLength(duration)
  /\ t' = i * dt
  /\ Vlocal' = integral(V, t')
  /\ spike' = SpikeOf(Vlocal', Vth)
  /\ V' = ResetOf(spike', Vr, Vlocal')
  /\ inputs' = [u \in DOMAIN inputs |-> inputs[u] + 2 * SinTurn(t', tau)]
  /\ pc' = "monitor"
  /\ UNCHANGED <<num, tau, Vth, Vr, i, duration, monitor_vars, analysis>>

\* LIF.update(_t, _dt), called by the runner for step i
update ==
  /\ pc = "update"
  /\ i < RunLength(duration)
  /\ t' = i * dt
  /\ Vlocal' = integral(V, t')
  /\ spike' = SpikeOf(Vlocal', Vth)
  /\ V' = ResetOf(spike', Vr, Vlocal')
  /\ pc' = "monitor"
  /\ UNCHANGED <<globals, i, duration, monitor_vars, analysis>>

\* variant: the runner advances two grid points per recorded step
monitorSkip ==
  /\ pc = "monitor"
  /\ mon_spike' = Append(mon_spike, spike)
  /\ mon_ts' = Append(mon_ts, Ms(t))
  /\ i' = i + 2
  /\ pc' = "update"
  /\ UNCHANGED <<globals, group, t, duration, analysis>>

\* the runner records the monitored variable and the time of the step
monitor ==
  /\ pc = "monitor"
  /\ mon_spike' = Append(mon_spike, spike)
  /\ mon_ts' = Append(mon_ts, Ms(t))
  /\ i' = i + 1
  /\ pc' = "update"
  /\ UNCHANGED <<globals, group, t, duration, analysis>>

\* runner.run returns after the last step
run_return ==
  /\ pc = "update"
  /\ i >= RunLength(duration)
  /\ pc' = "raster_plot"
  /\ UNCHANGED <<globals, group, t, i, duration, monitor_vars, analysis>>

\* ------------------------------------------------------- analysis (70-75)
\* np.where(sp_matrix > 0.): the (step, unit) pairs in row-major order
Cells(rows, cols) ==
  [j \in 1 .. rows * cols |-> <<((j - 1) \div cols) + 1, ((j - 1) % cols) + 1>>]

Events(sp_matrix, cols) ==
  SelectSeq(Cells(Len(sp_matrix), cols),
            LAMBDA c : sp_matrix[c[1]][c[2]] > 0)

\* bp.measure.raster_plot(runner.mon.spike, runner.mon.ts)
raster_plot ==
  /\ pc = "raster_plot"
  /\ LET ev == Events(mon_spike, num)
     IN  /\ indices' = [e \in DOMAIN ev |-> ev[e][2]]
         /\ times' = [e \in DOMAIN ev |-> mon_ts[ev[e][1]]]
  /\ pc' = "spike_phases"
  /\ UNCHANGED <<globals, group, t, i, duration, monitor_vars,
                 spike_phases, params>>

\* variant: the time is not reduced modulo the period
PhaseNoMod(tm, period) == tm \div period

\* (tm % tau) / tau for one fixed-point time tm
Phase(tm, period) == (tm % (period * Scale)) \div period

\* spike_phases = (times % tau) / tau ; params = inputs[indices]
phases ==
  /\ pc = "spike_phases"
  /\ spike_phases' = [e \in DOMAIN times |-> Phase(times[e], tau)]
  /\ params' = [e \in DOMAIN indices |-> inputs[indices[e]]]
  /\ pc' = "done"
  /\ UNCHANGED <<globals, group, t, i, duration, monitor_vars,
                 indices, times>>

\* ------------------------------------------------------- specifications
InitState(n, drive, dur) ==
  /\ num = n
  /\ tau = 100
  /\ Vth = 1 * Scale
  /\ Vr = 0 * Scale
  /\ inputs = drive
  /\ V = zeros(n)
  /\ spike = zeros(n)
  /\ Vlocal = zeros(n)
  /\ t = 0
  /\ i = 0
  /\ duration = dur
  /\ mon_spike = <<>>
  /\ mon_ts = <<>>
  /\ indices = <<>>
  /\ times = <<>>
  /\ spike_phases = <<>>
  /\ params = <<>>
  /\ pc = "update"

\* the script: inputs = bm.linspace(2., 4., num)
Init == InitState(NumUnits, linspace(2, 4, NumUnits), Duration * TicksPerMs)

\* the end-to-end scenario: one unit with drive 3.0 run for 1000 steps
InitScenario ==
  InitState(1, <<ScenarioDrive * Scale>>, ScenarioSteps * dt)

Next == update \/ monitor \/ run_return \/ raster_plot \/ phases

Spec == Init /\ [][Next]_vars

\* the script is one sequential thread: it never stops while a step remains
FairSpec == Init /\ [][Next]_vars /\ WF_vars(Next)

ScenarioSpec == InitScenario /\ [][Next]_vars

\* ----------------------------------------------------------------- claims
\* the state right after a call of LIF.update
AfterUpdate == pc = "monitor"

\* C1: after every call of LIF.update a unit whose spike indicator is 1.0
\* has the potential Vr, and every other unit has the integrated candidate.
C1_ResetSelectsSpiking ==
  AfterUpdate =>
    \A u \in Units(num) :
      IF spike[u] = AsFloat(TRUE) THEN V[u] = Vr ELSE V[u] = Vlocal[u]

\* an update after which one unit spiked and another kept a candidate that
\* differs from the reset value
C1_Witness ==
  /\ AfterUpdate
  /\ \E u \in Units(num) : spike[u] = AsFloat(TRUE) /\ Vlocal[u] # Vr
  /\ \E u \in Units(num) : spike[u] = AsFloat(FALSE) /\ Vlocal[u] # Vr

\* C2: in a run started from V = 0 no potential is below Vr, initially and
\* after every update.
C2_PotentialAtLeastReset ==
  \A u \in Units(num) : V[u] >= Vr

\* an update that lowered a positive potential: the slope at the new
\* potential is still negative and the unit did not spike
C2_Witness ==
  /\ AfterUpdate
  /\ \E u \in Units(num) :
       /\ spike[u] = AsFloat(FALSE)
       /\ V[u] > Vr
       /\ derivative(V[u], inputs[u], t, tau) < 0

\* C3: after every update the spike indicator of a unit is 1.0 exactly when
\* its integrated candidate is >= Vth and 0.0 otherwise.
C3_SpikeIsThresholdTest ==
  AfterUpdate =>
    \A u \in Units(num) :
      /\ spike[u] \in {AsFloat(FALSE), AsFloat(TRUE)}
      /\ spike[u] = AsFloat(TRUE) <=> Vlocal[u] >= Vth

\* an update with a candidate at or above threshold and one below it
C3_Witness ==
  /\ AfterUpdate
  /\ \E u \in Units(num) : Vlocal[u] >= Vth /\ spike[u] = AsFloat(TRUE)
  /\ \E u \in Units(num) : Vlocal[u] < Vth /\ spike[u] = AsFloat(FALSE)

\* C4: in the scenario (one unit, drive 3.0, tau = period = 100, Vth = 1.0,
\* Vr = 0.0, dt = 0.1, V = 0 at the start, 1000 steps) the finished run has
\* at least one spike event; the spike vector recorded for a step marks a
\* unit only if that step's integrated candidate was >= 1.0; and every
\* spike event is a recorded step that marks its unit.
C4_ScenarioSpikes ==
  /\ pc = "done" => Len(mon_spike) = ScenarioSteps /\ Len(times) >= 1
  /\ (pc # "monitor" /\ mon_spike # <<>>) =>
       \A u \in Units(num) :
         mon_spike[Len(mon_spike)][u] > 0 =>
           /\ mon_ts[Len(mon_ts)] = Ms(t)
           /\ Vlocal[u] >= 1 * Scale
  /\ \A e \in DOMAIN times :
       \E k \in DOMAIN mon_ts :
         mon_ts[k] = times[e] /\ mon_spike[k][indices[e]] > 0

\* the scenario has run its 1000 steps and a spike event was extracted
C4_Witness ==
  /\ pc = "done"
  /\ num = 1
  /\ inputs = <<3 * Scale>>
  /\ Len(mon_spike) = 1000
  /\ times # <<>>

\* C6: no step of the run changes the drive vector or tau, Vth, Vr, and a
\* call of LIF.update leaves everything but V, spike and its own locals
\* unchanged.
C6_UpdateFrame ==
  [][ /\ inputs' = inputs /\ tau' = tau /\ Vth' = Vth /\ Vr' = Vr
      /\ (pc = "update" /\ pc' = "monitor") =>
           UNCHANGED <<num, i, duration, mon_spike, mon_ts, analysis>> ]_vars

\* the whole run is over, updates have changed V and spike along the way,
\* and the parameters still hold the values they were set to
C6_Witness ==
  /\ pc = "done"
  /\ indices # <<>>
  /\ V # zeros(num)
  /\ inputs = linspace(2, 4, num) /\ tau = 100 /\ Vth = Scale /\ Vr = 0

\* C7: the phase of every spike event lies in [0, 1).
C7_PhaseInUnitInterval ==
  \A e \in DOMAIN spike_phases :
    0 <= spike_phases[e] /\ spike_phases[e] < 1 * Scale

\* phases were computed for a spike in the first period and for one later
C7_Witness ==
  /\ pc = "done"
  /\ \E e \in DOMAIN spike_phases : times[e] < tau * Scale
  /\ \E e \in DOMAIN spike_phases :
       times[e] >= tau * Scale /\ spike_phases[e] # times[e] \div tau

\* the step contract: the update is called once per step, the first call at
\* time 0 and each later call dt after the one before; between two calls exactly one
\* entry is recorded, at the end of the trace and holding the spike vector
\* and the time of the call just made; recorded entries never change.
C8_StepAction ==
  /\ (pc = "update" /\ pc' = "monitor") =>
       /\ Len(mon_spike) = Len(mon_ts)
       /\ t' = Len(mon_ts) * dt
       /\ mon_ts # <<>> => t' = t + dt /\ mon_ts[Len(mon_ts)] = Ms(t)
       /\ UNCHANGED <<mon_spike, mon_ts>>
  /\ (V' # V \/ spike' # spike \/ t' # t) => (pc = "update" /\ pc' = "monitor")
  /\ (mon_spike' # mon_spike \/ mon_ts' # mon_ts) =>
       /\ pc = "monitor" /\ pc' = "update"
       /\ mon_spike' = Append(mon_spike, spike)
       /\ mon_ts' = Append(mon_ts, Ms(t))
       /\ UNCHANGED <<V, spike, t>>
  /\ pc = "monitor" => pc' = "update" /\ Len(mon_spike') = Len(mon_spike) + 1

RunCompleted == pc \notin {"update", "monitor"}

C10_BelowThreshold ==
  Vr < Vth => \A u \in Units(num) : V[u] < Vth

\* an update whose candidate reached the threshold and was reset
C10_Witness ==
  /\ AfterUpdate
  /\ Vr < Vth
  /\ \E u \in Units(num) : Vlocal[u] >= Vth /\ V[u] < Vth

====
